---- MODULE Spec2Model ----
(***************************************************************************)
(* Model of Commit-Drafter's auto_commit package: the `generate` command   *)
(* (src/auto_commit/cli.py), the repository adapter (git_ops.py), the      *)
(* gateway (llm_client.py) and the credential file (config.py).            *)
(*                                                                         *)
(* Text is modelled as sequences of one-character strings, so that         *)
(* str.strip, str.startswith, `in`, readlines and writelines are computed  *)
(* the way Python computes them.  A Python value that the code only tests  *)
(* for truthiness (None or "") is the empty sequence.                      *)
(***************************************************************************)
EXTENDS Integers, Sequences, FiniteSets, TLC

(* ------------------------------ bounds --------------------------------- *)
\* longest diff returned by `git diff --cached`
MaxDiffLen == 2
\* longest text in a provider response
MaxTextLen == 2
\* number of fragments a provider error message is built from
MaxMsgParts == 2
\* number of lines of the credential file before the run
MaxLines == 2

(* ------------------------------ text ----------------------------------- *)
\* the characters str.strip() removes
Whitespace == {" ", "\n", "\r", "\t"}

RECURSIVE lstrip(_)
lstrip(s) ==
    IF s = <<>> THEN <<>>
    ELSE IF Head(s) \in Whitespace THEN lstrip(Tail(s)) ELSE s

RECURSIVE rstrip(_)
rstrip(s) ==
    IF s = <<>> THEN <<>>
    ELSE IF s[Len(s)] \in Whitespace THEN rstrip(SubSeq(s, 1, Len(s) - 1)) ELSE s

\* str.strip()
strip(s) == rstrip(lstrip(s))

\* str.startswith(p)
startswith(s, p) == Len(s) >= Len(p) /\ SubSeq(s, 1, Len(p)) = p

\* str.endswith(p)
endswith(s, p) == Len(s) >= Len(p) /\ SubSeq(s, Len(s) - Len(p) + 1, Len(s)) = p

\* p in s
contains(s, p) ==
    \E i \in 1..(Len(s) - Len(p) + 1) : SubSeq(s, i, i + Len(p) - 1) = p

\* all sequences over S of length at most n
RECURSIVE SeqsUpTo(_, _)
SeqsUpTo(S, n) ==
    IF n = 0 THEN {<<>>}
    ELSE LET shorter == SeqsUpTo(S, n - 1)
         IN  shorter \cup {Append(s, c) : s \in shorter, c \in S}

\* "".join(parts)
RECURSIVE Flatten(_)
Flatten(parts) ==
    IF parts = <<>> THEN <<>> ELSE Head(parts) \o Flatten(Tail(parts))

(* ------------------------- credential file ----------------------------- *)
\* text-mode read with newline=None: "\r\n" and "\r" become "\n"
RECURSIVE UniversalNewlines(_)
UniversalNewlines(s) ==
    IF s = <<>> THEN <<>>
    ELSE IF Head(s) = "\r"
         THEN IF Len(s) > 1 /\ s[2] = "\n"
              THEN <<"\n">> \o UniversalNewlines(SubSeq(s, 3, Len(s)))
              ELSE <<"\n">> \o UniversalNewlines(Tail(s))
         ELSE <<Head(s)>> \o UniversalNewlines(Tail(s))

\* text-mode write with newline=None: "\n" becomes os.linesep
RECURSIVE WriteNewlines(_, _)
WriteNewlines(s, linesep) ==
    IF s = <<>> THEN <<>>
    ELSE IF Head(s) = "\n"
         THEN linesep \o WriteNewlines(Tail(s), linesep)
         ELSE <<Head(s)>> \o WriteNewlines(Tail(s), linesep)

\* split after every "\n", keeping it; cur is the line being collected
RECURSIVE SplitKeepEnds(_, _)
SplitKeepEnds(s, cur) ==
    IF s = <<>> THEN (IF cur = <<>> THEN <<>> ELSE <<cur>>)
    ELSE IF Head(s) = "\n"
         THEN <<Append(cur, "\n")>> \o SplitKeepEnds(Tail(s), <<>>)
         ELSE SplitKeepEnds(Tail(s), Append(cur, Head(s)))

\* f.readlines() of a file opened "r"
readlines(content) == SplitKeepEnds(UniversalNewlines(content), <<>>)

\* line.strip().startswith(f"{key_name}=")
IsKeyLine(line, key_name) == startswith(strip(line), key_name \o <<"=">>)

\* f"{key_name}={key_value}\n"
KeyLine(key_name, key_value) == key_name \o <<"=">> \o key_value \o <<"\n">>

\* the for loop of save_key_to_env
ReplaceKeyLines(lines, key_name, key_value) ==
    [i \in 1..Len(lines) |->
        IF IsKeyLine(lines[i], key_name)
        THEN KeyLine(key_name, key_value)
        ELSE lines[i]]

\* the `if not updated` block of save_key_to_env
AppendKeyLine(new_lines, key_name, key_value) ==
    LET closed == IF new_lines # <<>> /\ ~endswith(new_lines[Len(new_lines)], <<"\n">>)
                  THEN Append(new_lines, <<"\n">>)
                  ELSE new_lines
    IN  Append(closed, KeyLine(key_name, key_value))

\* save_key_to_env leaving the file as it found it
save_key_to_env_NoWrite(file, key_name, key_value, linesep) == file

\* save_key_to_env(key_name, key_value): the file it leaves
save_key_to_env(file, key_name, key_value, linesep) ==
    LET lines     == IF file.exists THEN readlines(file.content) ELSE <<>>
        updated   == \E i \in 1..Len(lines) : IsKeyLine(lines[i], key_name)
        replaced  == ReplaceKeyLines(lines, key_name, key_value)
        new_lines == IF updated THEN replaced
                     ELSE AppendKeyLine(replaced, key_name, key_value)
    IN  [exists |-> TRUE, content |-> WriteNewlines(Flatten(new_lines), linesep)]

(* ------------------------- program constants --------------------------- *)
EXIT_SUCCESS == 0
EXIT_NOT_GIT_REPO == 1
EXIT_STAGE_FAILED == 2
EXIT_NO_CHANGES == 3
EXIT_API_KEY_MISSING == 10
EXIT_API_KEY_INVALID == 11
EXIT_QUOTA_EXCEEDED == 12
EXIT_API_ERROR == 13
EXIT_COMMIT_FAILED == 20
EXIT_UNKNOWN_ERROR == 99

DEFAULT_GEMINI_MODEL == "gemini-2.5-flash"
SYSTEM_PROMPT == "SYSTEM_PROMPT"
\* the name under which generate looks up and saves the key
key_name == <<"GEMINI_API_KEY">>
\* "Here is the git diff:\n\n"
PromptPrefix == <<"Here is the git diff:", "\n", "\n">>

(* --------------------------- repository adapter ------------------------ *)
\* how a subprocess.run(..., check=True) can end: exit status 0, a non-zero
\* exit status, or the tool cannot be started at all
SubprocessOutcomes == {"ok", "CalledProcessError", "FileNotFoundError"}

\* is_git_repo(): True, False, or the exception it lets through
is_git_repo(run) ==
    CASE run = "ok" -> [exc |-> "", ret |-> TRUE]
      [] run = "CalledProcessError" -> [exc |-> "", ret |-> FALSE]
      [] OTHER -> [exc |-> run, ret |-> FALSE]

\* stage_all_changes()
stage_all_changes(run) ==
    CASE run = "ok" -> [exc |-> "", ret |-> TRUE]
      [] run = "CalledProcessError" -> [exc |-> "", ret |-> FALSE]
      [] OTHER -> [exc |-> run, ret |-> FALSE]

\* commit_changes(message)
commit_changes(run) ==
    CASE run = "ok" -> [exc |-> "", ret |-> TRUE]
      [] run = "CalledProcessError" -> [exc |-> "", ret |-> FALSE]
      [] OTHER -> [exc |-> run, ret |-> FALSE]

\* get_git_diff(staged=True): stdout, or "" after any exception
get_git_diff(run, out) == IF run = "ok" THEN out ELSE <<>>

(* ------------------------------- gateway ------------------------------- *)
Providers == {"gemini", "Gemini", "openai"}

\* str.lower() on the provider names of the model
lower(p) == IF p = "Gemini" THEN "gemini" ELSE p

\* LLMClient.__init__(provider, model, api_key); built is how genai.Client(...)
\* ends ("ok" or the exception it raises)
LLMClient(p, m, api_key, env_key, built) ==
    IF lower(p) = "gemini"
    THEN LET key == IF api_key # <<>> THEN api_key ELSE env_key
         IN  IF key = <<>>
             THEN [exc |-> "APIKeyMissingError", error_code |-> "API_KEY_MISSING",
                   provider |-> lower(p), model |-> m, api_key |-> key]
             ELSE IF built # "ok"
             THEN [exc |-> built, error_code |-> "",
                   provider |-> lower(p), model |-> m, api_key |-> key]
             ELSE [exc |-> "", error_code |-> "",
                   provider |-> lower(p),
                   model |-> IF m # "" THEN m ELSE DEFAULT_GEMINI_MODEL,
                   api_key |-> key]
    ELSE [exc |-> "ValueError", error_code |-> "",
          provider |-> lower(p), model |-> m, api_key |-> <<>>]

\* ClassifyProviderError without the final `except Exception`: anything that
\* is not an APIError passes through as it is
ClassifyProviderError_NoCatchAll(cls, msg) ==
    CASE cls = "ClientError" ->
            IF contains(msg, <<"4", "0", "1">>) \/ contains(msg, <<"4", "0", "3">>)
            THEN [exc |-> "APIKeyInvalidError", error_code |-> "API_KEY_INVALID"]
            ELSE IF contains(msg, <<"4", "2", "9">>)
            THEN [exc |-> "APIQuotaExceededError", error_code |-> "QUOTA_EXCEEDED"]
            ELSE [exc |-> "APIRequestError", error_code |-> "API_ERROR"]
      [] cls = "APIError" ->
            IF contains(msg, <<"4", "2", "9">>)
            THEN [exc |-> "APIQuotaExceededError", error_code |-> "QUOTA_EXCEEDED"]
            ELSE [exc |-> "APIRequestError", error_code |-> "API_ERROR"]
      [] OTHER -> [exc |-> cls, error_code |-> ""]

\* the except clauses of generate_commit_message: the typed error raised for
\* a provider exception of class cls with message msg
ClassifyProviderError(cls, msg) ==
    CASE cls = "ClientError" ->
            IF contains(msg, <<"4", "0", "1">>) \/ contains(msg, <<"4", "0", "3">>)
            THEN [exc |-> "APIKeyInvalidError", error_code |-> "API_KEY_INVALID"]
            ELSE IF contains(msg, <<"4", "2", "9">>)
            THEN [exc |-> "APIQuotaExceededError", error_code |-> "QUOTA_EXCEEDED"]
            ELSE [exc |-> "APIRequestError", error_code |-> "API_ERROR"]
      [] cls = "APIError" ->
            IF contains(msg, <<"4", "2", "9">>)
            THEN [exc |-> "APIQuotaExceededError", error_code |-> "QUOTA_EXCEEDED"]
            ELSE [exc |-> "APIRequestError", error_code |-> "API_ERROR"]
      [] OTHER -> [exc |-> "APIRequestError", error_code |-> "API_ERROR"]

\* Request sending the diff with its surrounding whitespace removed
Request_Trimmed(client, d) ==
    [model |-> client.model,
     contents |-> PromptPrefix \o strip(d),
     system_instruction |-> SYSTEM_PROMPT]

\* the arguments of client.models.generate_content(...)
Request(client, d) ==
    [model |-> client.model,
     contents |-> PromptPrefix \o d,
     system_instruction |-> SYSTEM_PROMPT]

\* client.generate_commit_message(diff); call is how models.generate_content
\* ends: [kind, has_text, text, msg]
generate_commit_message(client, d, call) ==
    IF strip(d) = <<>>
    THEN [exc |-> "LLMClientError", error_code |-> "NO_CHANGES",
          ret |-> <<>>, requests |-> <<>>]
    ELSE LET request == Request(client, d)
         IN  IF call.kind = "ok"
             THEN IF call.has_text
                  THEN [exc |-> "", error_code |-> "",
                        ret |-> strip(call.text), requests |-> <<request>>]
                  \* response.text is None: AttributeError, caught as Exception
                  ELSE ClassifyProviderError("AttributeError", call.msg)
                         @@ [ret |-> <<>>, requests |-> <<request>>]
             ELSE ClassifyProviderError(call.kind, call.msg)
                    @@ [ret |-> <<>>, requests |-> <<request>>]

\* the except clauses of generate: the exit code for an exception of class exc
\* raised inside the try block
HandlerExitCode(exc) ==
    CASE exc = "APIKeyMissingError" -> EXIT_API_KEY_MISSING
      [] exc = "APIKeyInvalidError" -> EXIT_API_KEY_INVALID
      [] exc = "APIQuotaExceededError" -> EXIT_QUOTA_EXCEEDED
      [] exc = "APIRequestError" -> EXIT_API_ERROR
      [] exc = "LLMClientError" -> EXIT_UNKNOWN_ERROR
      [] OTHER -> EXIT_UNKNOWN_ERROR

\* the tag print_error shows for an exception handled by generate
HandlerTag(exc, error_code) ==
    IF exc \in {"APIKeyMissingError", "APIKeyInvalidError", "APIQuotaExceededError",
                "APIRequestError", "LLMClientError"}
    THEN error_code
    ELSE "UNKNOWN"

(* ------------------------------- state --------------------------------- *)
VARIABLES
    provider,        \* --provider
    model,           \* --model ("" when not given)
    yes,             \* --yes
    print_only,      \* --print-only
    os_linesep,      \* the platform's os.linesep
    envFile,         \* the credential file at env_path: [exists, content]
    envFile0,        \* the credential file before the run
    GEMINI_API_KEY,  \* config.GEMINI_API_KEY, set when config is imported
    pc,              \* where generate is
    diff,            \* generate's local `diff`
    current_key,     \* generate's local `current_key`
    message,         \* generate's local `message`
    exit_code,       \* {} while running, {c} once the process ends with code c
    calls,           \* external operations performed so far: [op, res]
    console_out,     \* tags of what was printed to the stderr console
    stdout,          \* what print() wrote
    provider_call,   \* how models.generate_content ended: [kind, has_text, text, msg]
    gateway_error,   \* the typed error the gateway raised: [exc, error_code]
    requests,        \* requests sent to the provider
    commit_args,     \* message arguments commit_changes was called with
    history,         \* messages of the commits made in the repository
    client_key,      \* the api key the LLMClient of this run was built with
    env_reads,       \* times the credential file was opened for reading
    env_writes,      \* times the credential file was opened for writing
    OPENAI_API_KEY,  \* src/src/config.OPENAI_API_KEY (older variant only)
    save_args,       \* arguments of the two-save scenario: [key, v1, v2]
    save_step        \* saves done in the two-save scenario

vars == <<provider, model, yes, print_only, os_linesep, envFile, envFile0,
          GEMINI_API_KEY, pc, diff, current_key, message, exit_code, calls,
          console_out, stdout, provider_call, gateway_error, requests,
          commit_args, history, client_key, env_reads, env_writes,
          OPENAI_API_KEY, save_args, save_step>>

options == <<provider, model, yes, print_only, os_linesep>>
saveVars == <<save_args, save_step>>
fileStats == <<env_reads, env_writes>>

(* ------------------------------ inputs --------------------------------- *)
\* key values: what the environment holds or the user types
KeyValues == {<<"a">>, <<"b">>}

\* diffs `git diff --cached` can print
Diffs == SeqsUpTo({"d", " "}, MaxDiffLen)

\* texts a provider response can carry
Texts == SeqsUpTo({"m", " "}, MaxTextLen)

\* fragments of provider error messages
MsgParts == {<<"4", "0", "1">>, <<"4", "0", "3">>, <<"4", "2", "9">>, <<"5", "0", "0">>}

\* provider error messages: one to MaxMsgParts fragments
ErrorMessages == {Flatten(ps) : ps \in (SeqsUpTo(MsgParts, MaxMsgParts) \ {<<>>})}

\* str(e) of an APIError starts with the HTTP status of the response
StatusOf(msg) == SubSeq(msg, 1, 3)

\* the messages an exception of class k can carry: a ClientError is a 4xx
\* response, any other APIError is not, a plain Exception carries any text
MessagesOf(k) ==
    CASE k = "ClientError" -> {e \in ErrorMessages : StatusOf(e)[1] = "4"}
      [] k = "APIError" -> {e \in ErrorMessages : StatusOf(e)[1] # "4"}
      [] OTHER -> ErrorMessages

\* how models.generate_content can end
ProviderCalls ==
    {[kind |-> "ok", has_text |-> TRUE, text |-> t, msg |-> <<>>] : t \in Texts}
    \cup {[kind |-> "ok", has_text |-> FALSE, text |-> <<>>, msg |-> <<>>]}
    \cup UNION {{[kind |-> k, has_text |-> FALSE, text |-> <<>>, msg |-> e] :
                    e \in MessagesOf(k)} :
                 k \in {"ClientError", "APIError", "Exception"}}

NoProviderCall == [kind |-> "none", has_text |-> FALSE, text |-> <<>>, msg |-> <<>>]
NoGatewayError == [exc |-> "", error_code |-> ""]

\* credential files a run of generate starts with
RunEnvFiles ==
    {[exists |-> FALSE, content |-> <<>>],
     [exists |-> TRUE, content |-> <<"#", "\n", "J", "=", "a">>],
     [exists |-> TRUE, content |-> <<"GEMINI_API_KEY", "=", "\n">>]}

NoSave == [key |-> <<>>, v1 |-> <<>>, v2 |-> <<>>]

(* ----------------------------- generate -------------------------------- *)
Init ==
    /\ provider \in Providers
    /\ model \in {"", "gemini-pro"}
    /\ yes \in BOOLEAN
    /\ print_only \in BOOLEAN
    /\ os_linesep \in {<<"\n">>, <<"\r", "\n">>}
    /\ envFile \in RunEnvFiles
    /\ envFile0 = envFile
    /\ GEMINI_API_KEY = <<>>
    /\ pc = "Start"
    /\ diff = <<>>
    /\ current_key = <<>>
    /\ message = <<>>
    /\ exit_code = {}
    /\ calls = <<>>
    /\ console_out = <<>>
    /\ stdout = <<>>
    /\ provider_call = NoProviderCall
    /\ gateway_error = NoGatewayError
    /\ requests = <<>>
    /\ commit_args = <<>>
    /\ history = <<>>
    /\ client_key = <<>>
    /\ env_reads = 0
    /\ env_writes = 0
    /\ OPENAI_API_KEY = <<>>
    /\ save_args = NoSave
    /\ save_step = 0

Call(op, res) == [op |-> op, res |-> res]

\* raise typer.Exit(code=code) after print_error(..., tag)
ExitWith(code, tag) ==
    /\ pc' = "Exit"
    /\ exit_code' = {code}
    /\ console_out' = Append(console_out, tag)

\* an exception that no handler of generate catches
Propagate ==
    /\ pc' = "Uncaught"
    /\ UNCHANGED <<exit_code, console_out>>

\* RepoGate without the early exit
RepoGate_NoExit(ret) ==
    pc' = "Stage" /\ UNCHANGED <<exit_code, console_out>>

\* cli.py 65-70: `if not is_git_repo()`
RepoGate(ret) ==
    IF ~ret THEN ExitWith(EXIT_NOT_GIT_REPO, "NOT_GIT_REPO")
    ELSE pc' = "Stage" /\ UNCHANGED <<exit_code, console_out>>

\* StageGate going on to the diff read whatever staging returned
StageGate_NoExit(ret) ==
    pc' = "ReadDiff" /\ UNCHANGED <<exit_code, console_out>>

\* cli.py 72-80: `if not stage_all_changes()`
StageGate(ret) ==
    IF ~ret THEN ExitWith(EXIT_STAGE_FAILED, "STAGE_FAILED")
    ELSE pc' = "ReadDiff" /\ UNCHANGED <<exit_code, console_out>>

\* KeyGate without the print-only case: a missing key always prompts
KeyGate_AlwaysPrompt ==
    /\ current_key' = GEMINI_API_KEY
    /\ IF GEMINI_API_KEY = <<>>
       THEN /\ pc' = "Prompt"
            /\ console_out' = Append(console_out, "Missing key")
            /\ UNCHANGED exit_code
       ELSE pc' = "Generate" /\ UNCHANGED <<exit_code, console_out>>

\* KeyGate without the prompt: a missing key is always fatal
KeyGate_NeverPrompt ==
    /\ current_key' = GEMINI_API_KEY
    /\ IF GEMINI_API_KEY = <<>>
       THEN ExitWith(EXIT_API_KEY_MISSING, "API_KEY_MISSING")
       ELSE pc' = "Generate" /\ UNCHANGED <<exit_code, console_out>>

\* cli.py 102-111: look the key up; without one, print-only fails and the
\* interactive mode goes on to prompt
KeyGate ==
    /\ current_key' = GEMINI_API_KEY
    /\ IF GEMINI_API_KEY = <<>>
       THEN IF print_only THEN ExitWith(EXIT_API_KEY_MISSING, "API_KEY_MISSING")
            ELSE /\ pc' = "Prompt"
                 /\ console_out' = Append(console_out, "Missing key")
                 /\ UNCHANGED exit_code
       ELSE pc' = "Generate" /\ UNCHANGED <<exit_code, console_out>>

\* DiffGate without the `if provider != "gemini"` check
DiffGate_NoProviderCheck(d) ==
    IF d = <<>>
    THEN ExitWith(EXIT_NO_CHANGES, "NO_CHANGES") /\ UNCHANGED current_key
    ELSE KeyGate

\* DiffGate without the `if not diff` check
DiffGate_NoEmptyCheck(d) ==
    IF provider # "gemini"
    THEN ExitWith(EXIT_UNKNOWN_ERROR, "UNSUPPORTED_PROVIDER") /\ UNCHANGED current_key
    ELSE KeyGate

\* cli.py 88-100: `if not diff`, `if provider != "gemini"`
DiffGate(d) ==
    IF d = <<>>
    THEN ExitWith(EXIT_NO_CHANGES, "NO_CHANGES") /\ UNCHANGED current_key
    ELSE IF provider # "gemini"
    THEN ExitWith(EXIT_UNKNOWN_ERROR, "UNSUPPORTED_PROVIDER") /\ UNCHANGED current_key
    ELSE KeyGate

\* config.py at import: load_dotenv(env_path), load_dotenv(), os.getenv.
\* The value comes from the process environment, the credential file or a
\* .env of the working directory, so it is an input of the run.
\* load_dotenv(env_path) reads the file when it exists; load_dotenv() reads
\* the first .env found from config.py's directory (or the working directory)
\* upwards, which may be the same file (found_again).
ImportConfig ==
    /\ pc = "Start"
    /\ \E k \in KeyValues \cup {<<>>} : GEMINI_API_KEY' = k
    /\ \E found_again \in BOOLEAN :
         /\ (found_again => envFile.exists)
         /\ env_reads' = env_reads + (IF envFile.exists THEN 1 ELSE 0)
                                   + (IF found_again THEN 1 ELSE 0)
    /\ calls' = Append(calls, Call("load_dotenv", IF envFile.exists THEN "read" ELSE "absent"))
    /\ pc' = "CheckRepo"
    /\ UNCHANGED <<options, envFile, envFile0, diff, current_key, message, exit_code,
                   console_out, stdout, provider_call, gateway_error, requests,
                   commit_args, history, client_key, env_writes, saveVars, OPENAI_API_KEY>>

\* cli.py 65-70
CheckRepo ==
    /\ pc = "CheckRepo"
    /\ \E run \in SubprocessOutcomes :
         LET r == is_git_repo(run)
         IN  /\ calls' = Append(calls, Call("is_git_repo",
                    IF r.exc # "" THEN "raise" ELSE IF r.ret THEN "True" ELSE "False"))
             /\ IF r.exc # "" THEN Propagate ELSE RepoGate(r.ret)
    /\ UNCHANGED <<options, envFile, envFile0, GEMINI_API_KEY, diff, current_key,
                   message, stdout, provider_call, gateway_error, requests,
                   commit_args, history, client_key, fileStats, saveVars, OPENAI_API_KEY>>

\* cli.py 72-80
Stage ==
    /\ pc = "Stage"
    /\ \E run \in SubprocessOutcomes :
         LET r == stage_all_changes(run)
         IN  /\ calls' = Append(calls, Call("stage_all_changes",
                    IF r.exc # "" THEN "raise" ELSE IF r.ret THEN "True" ELSE "False"))
             /\ IF r.exc # "" THEN Propagate ELSE StageGate(r.ret)
    /\ UNCHANGED <<options, envFile, envFile0, GEMINI_API_KEY, diff, current_key,
                   message, stdout, provider_call, gateway_error, requests,
                   commit_args, history, client_key, fileStats, saveVars, OPENAI_API_KEY>>

\* cli.py 82-111: read the diff, reject an empty diff and an unsupported
\* provider, look the key up
ReadDiff ==
    /\ pc = "ReadDiff"
    /\ \E run \in SubprocessOutcomes, out \in Diffs :
         /\ (run # "ok" => out = <<>>)
         /\ diff' = get_git_diff(run, out)
         /\ calls' = Append(calls, Call("get_git_diff", run))
    /\ DiffGate(diff')
    /\ UNCHANGED <<options, envFile, envFile0, GEMINI_API_KEY, message, stdout,
                   provider_call, gateway_error, requests, commit_args, history,
                   client_key, fileStats, saveVars, OPENAI_API_KEY>>

\* cli.py 113-125: ask for the key; save a non-empty entry, fail on an empty one
PromptKey ==
    /\ pc = "Prompt"
    /\ \E asked \in {"ok", "EOFError"}, entry \in KeyValues \cup {<<>>},
          written \in {"ok", "OSError"}, truncated \in BOOLEAN :
         /\ (asked # "ok" => entry = <<>>)
         /\ (entry = <<>> => written = "ok")
         /\ (written = "ok" => ~truncated)
         /\ IF asked # "ok"
            THEN /\ calls' = Append(calls, Call("Prompt.ask", "raise"))
                 /\ Propagate
                 /\ UNCHANGED <<current_key, envFile, fileStats>>
            ELSE IF entry = <<>>
            THEN /\ calls' = Append(calls, Call("Prompt.ask", "empty"))
                 /\ current_key' = entry
                 /\ ExitWith(EXIT_API_KEY_MISSING, "API_KEY_MISSING")
                 /\ UNCHANGED <<envFile, fileStats>>
            ELSE IF written # "ok"
            THEN /\ calls' = calls \o <<Call("Prompt.ask", "entered"),
                                        Call("save_key_to_env", "raise")>>
                 /\ current_key' = entry
                 /\ Propagate
                 /\ env_reads' = env_reads + (IF envFile.exists THEN 1 ELSE 0)
                 \* the OSError comes before open(env_path, "w"), or after
                 \* it has emptied the file
                 /\ envFile' = IF truncated THEN [exists |-> TRUE, content |-> <<>>]
                                ELSE envFile
                 /\ env_writes' = env_writes + (IF truncated THEN 1 ELSE 0)
            ELSE /\ calls' = calls \o <<Call("Prompt.ask", "entered"),
                                        Call("save_key_to_env", "ok")>>
                 /\ current_key' = entry
                 /\ envFile' = save_key_to_env(envFile, key_name, entry, os_linesep)
                 /\ env_reads' = env_reads + (IF envFile.exists THEN 1 ELSE 0)
                 /\ env_writes' = env_writes + 1
                 /\ pc' = "Generate"
                 /\ console_out' = Append(console_out, "API Key saved")
                 /\ UNCHANGED exit_code
    /\ UNCHANGED <<options, envFile0, GEMINI_API_KEY, diff, message, stdout,
                   provider_call, gateway_error, requests, commit_args, history,
                   client_key, saveVars, OPENAI_API_KEY>>

\* whether an exception class is one of the gateway's typed errors
IsTypedError(exc) ==
    exc \in {"APIKeyMissingError", "APIKeyInvalidError", "APIQuotaExceededError",
             "APIRequestError", "LLMClientError"}

\* AfterGenerate ignoring --yes: the confirmation is always asked
AfterGenerate_AlwaysConfirm(msg) ==
    IF print_only
    THEN /\ stdout' = Append(stdout, msg)
         /\ pc' = "Return"
         /\ exit_code' = {EXIT_SUCCESS}
         /\ UNCHANGED console_out
    ELSE /\ console_out' = Append(console_out, "Generated Commit Message")
         /\ pc' = "Confirm"
         /\ UNCHANGED <<stdout, exit_code>>

\* AfterGenerate without the print-only return
AfterGenerate_NoPrintOnly(msg) ==
    /\ console_out' = Append(console_out, "Generated Commit Message")
    /\ pc' = IF yes THEN "Commit" ELSE "Confirm"
    /\ UNCHANGED <<stdout, exit_code>>

\* cli.py 127-132 and 140-149: after a successful generation, print-only
\* prints and returns; otherwise --yes goes straight to the commit
AfterGenerate(msg) ==
    IF print_only
    THEN /\ stdout' = Append(stdout, msg)
         /\ pc' = "Return"
         /\ exit_code' = {EXIT_SUCCESS}
         /\ UNCHANGED console_out
    ELSE /\ console_out' = Append(console_out, "Generated Commit Message")
         /\ pc' = IF yes THEN "Commit" ELSE "Confirm"
         /\ UNCHANGED <<stdout, exit_code>>

\* cli.py 127-138 and 160-179: build the client, generate, and handle what
\* either raises
Generate ==
    /\ pc = "Generate"
    /\ \E built \in {"ok", "Exception"}, call \in ProviderCalls \cup {NoProviderCall} :
         LET client == LLMClient(provider, model, current_key, GEMINI_API_KEY, built)
             called == client.exc = "" /\ strip(diff) # <<>>
             result == IF client.exc # ""
                       THEN [exc |-> client.exc, error_code |-> client.error_code,
                             ret |-> <<>>, requests |-> <<>>]
                       ELSE generate_commit_message(client, diff, call)
         IN  /\ (call # NoProviderCall) <=> called
             /\ provider_call' = call
             /\ client_key' = IF client.exc = "" THEN client.api_key ELSE <<>>
             /\ requests' = requests \o result.requests
             /\ calls' = calls
                    \o <<Call("LLMClient", IF client.exc = "" THEN "ok" ELSE "raise")>>
                    \o (IF client.exc = ""
                        THEN <<Call("generate_commit_message",
                                    IF result.exc = "" THEN "returned" ELSE "raise")>>
                        ELSE <<>>)
             /\ gateway_error' = IF IsTypedError(result.exc)
                                 THEN [exc |-> result.exc, error_code |-> result.error_code]
                                 ELSE NoGatewayError
             /\ IF result.exc # ""
                THEN /\ ExitWith(HandlerExitCode(result.exc),
                                 HandlerTag(result.exc, result.error_code))
                     /\ UNCHANGED <<message, stdout>>
                ELSE /\ message' = result.ret
                     /\ AfterGenerate(result.ret)
    /\ UNCHANGED <<options, envFile, envFile0, GEMINI_API_KEY, diff, current_key,
                   commit_args, history, fileStats, saveVars, OPENAI_API_KEY>>

\* ConfirmGate committing whatever the answer is
ConfirmGate_IgnoresAnswer(answer) ==
    IF answer \in {"True", "False"}
    THEN pc' = "Commit" /\ UNCHANGED <<exit_code, console_out>>
    ELSE ExitWith(HandlerExitCode(answer), HandlerTag(answer, ""))

\* cli.py 147-151 and 157-158: the answer to Confirm.ask
ConfirmGate(answer) ==
    IF answer = "True"
    THEN pc' = "Commit" /\ UNCHANGED <<exit_code, console_out>>
    ELSE IF answer = "False"
    THEN /\ pc' = "Return"
         /\ exit_code' = {EXIT_SUCCESS}
         /\ console_out' = Append(console_out, "Operation aborted")
    ELSE ExitWith(HandlerExitCode(answer), HandlerTag(answer, ""))

\* cli.py 144-149
Confirm ==
    /\ pc = "Confirm"
    /\ \E answer \in {"True", "False", "EOFError"} :
         /\ calls' = Append(calls, Call("Confirm.ask", answer))
         /\ ConfirmGate(answer)
    /\ UNCHANGED <<options, envFile, envFile0, GEMINI_API_KEY, diff, current_key,
                   message, stdout, provider_call, gateway_error, requests,
                   commit_args, history, client_key, fileStats, saveVars, OPENAI_API_KEY>>

\* cli.py 151-156: commit_changes(message) and what follows
Commit ==
    /\ pc = "Commit"
    /\ \E run \in SubprocessOutcomes :
         LET r == commit_changes(run)
         IN  /\ commit_args' = Append(commit_args, message)
             /\ calls' = Append(calls, Call("commit_changes",
                    IF r.exc # "" THEN "raise" ELSE IF r.ret THEN "True" ELSE "False"))
             /\ IF r.exc # ""
                THEN /\ ExitWith(HandlerExitCode(r.exc), HandlerTag(r.exc, ""))
                     /\ UNCHANGED history
                ELSE IF r.ret
                THEN /\ history' = Append(history, message)
                     /\ pc' = "Return"
                     /\ exit_code' = {EXIT_SUCCESS}
                     /\ console_out' = Append(console_out, "Success")
                ELSE /\ ExitWith(EXIT_COMMIT_FAILED, "COMMIT_FAILED")
                     /\ UNCHANGED history
    /\ UNCHANGED <<options, envFile, envFile0, GEMINI_API_KEY, diff, current_key,
                   message, stdout, provider_call, gateway_error, requests,
                   client_key, fileStats, saveVars, OPENAI_API_KEY>>

Next ==
    \/ ImportConfig
    \/ CheckRepo
    \/ Stage
    \/ ReadDiff
    \/ PromptKey
    \/ Generate
    \/ Confirm
    \/ Commit

Spec == Init /\ [][Next]_vars

\* the run is over
Terminated == pc \in {"Exit", "Return", "Uncaught"}

(* ------------------- save_key_to_env called twice ---------------------- *)
\* key names save_key_to_env is called with
KeyNames == {key_name, <<"J">>}

\* lines of a credential file, without their line ends: blank, comment,
\* entries for each key (one indented), a name without "="
LineBodies ==
    {<<>>, <<"#">>, <<"GEMINI_API_KEY", "=", "a">>, <<" ", "GEMINI_API_KEY", "=", "b">>,
     <<"J", "=", "a">>, <<"GEMINI_API_KEY">>}

LineEnds == {<<"\n">>, <<"\r", "\n">>, <<"\r">>}

TerminatedLines == {b \o t : b \in LineBodies, t \in LineEnds}

\* the last line of a file may lack its line end
LastLines == TerminatedLines \cup (LineBodies \ {<<>>})

\* file contents of at most MaxLines lines
SaveContents ==
    {<<>>} \cup
    {Flatten(ls) \o last : ls \in SeqsUpTo(TerminatedLines, MaxLines - 1),
                           last \in LastLines}

SaveFiles ==
    {[exists |-> FALSE, content |-> <<>>]}
    \cup {[exists |-> TRUE, content |-> c] : c \in SaveContents}

SaveInit ==
    /\ provider = "gemini"
    /\ model = ""
    /\ yes = FALSE
    /\ print_only = FALSE
    /\ os_linesep \in {<<"\n">>, <<"\r", "\n">>}
    /\ envFile \in SaveFiles
    /\ envFile0 = envFile
    /\ GEMINI_API_KEY = <<>>
    /\ pc = "Save"
    /\ diff = <<>>
    /\ current_key = <<>>
    /\ message = <<>>
    /\ exit_code = {}
    /\ calls = <<>>
    /\ console_out = <<>>
    /\ stdout = <<>>
    /\ provider_call = NoProviderCall
    /\ gateway_error = NoGatewayError
    /\ requests = <<>>
    /\ commit_args = <<>>
    /\ history = <<>>
    /\ client_key = <<>>
    /\ env_reads = 0
    /\ env_writes = 0
    /\ OPENAI_API_KEY = <<>>
    /\ save_args \in [key : KeyNames, v1 : KeyValues, v2 : KeyValues]
    /\ save_step = 0

runVars == <<provider, model, yes, print_only, os_linesep, envFile0,
             GEMINI_API_KEY, pc, diff, current_key, message, exit_code, calls,
             console_out, stdout, provider_call, gateway_error, requests,
             commit_args, history, client_key, env_reads, env_writes,
             OPENAI_API_KEY>>

\* save_key_to_env(key, v1)
SaveFirst ==
    /\ pc = "Save"
    /\ save_step = 0
    /\ envFile' = save_key_to_env(envFile, save_args.key, save_args.v1, os_linesep)
    /\ save_step' = 1
    /\ UNCHANGED <<runVars, save_args>>

\* save_key_to_env(key, v2)
SaveSecond ==
    /\ pc = "Save"
    /\ save_step = 1
    /\ envFile' = save_key_to_env(envFile, save_args.key, save_args.v2, os_linesep)
    /\ save_step' = 2
    /\ UNCHANGED <<runVars, save_args>>

SaveNext == SaveFirst \/ SaveSecond

SaveSpec == SaveInit /\ [][SaveNext]_vars

(* ------------------ the older variant: src/src/*.py -------------------- *)
old_DEFAULT_GEMINI_MODEL == "gemini-2.0-flash"
old_DEFAULT_OPENAI_MODEL == "gpt-4o-mini"

\* src/src/llm_client.py LLMClient.__init__(provider, model): the keys come
\* from src/src/config.py; built is how the SDK client constructor ends
old_LLMClient(p, m, gemini_key, openai_key, built) ==
    LET key == IF lower(p) = "gemini" THEN gemini_key ELSE openai_key
        default == IF lower(p) = "gemini" THEN old_DEFAULT_GEMINI_MODEL
                   ELSE old_DEFAULT_OPENAI_MODEL
    IN  IF lower(p) \notin {"gemini", "openai"} \/ key = <<>>
        THEN [exc |-> "ValueError", provider |-> lower(p), model |-> m, api_key |-> <<>>]
        ELSE IF built # "ok"
        THEN [exc |-> built, provider |-> lower(p), model |-> m, api_key |-> key]
        ELSE [exc |-> "", provider |-> lower(p),
              model |-> IF m # "" THEN m ELSE default, api_key |-> key]

\* src/src/llm_client.py generate_commit_message(diff): it never raises; a
\* blank diff and every exception come back as a string
old_generate_commit_message(client, d, call) ==
    IF strip(d) = <<>>
    THEN [ret |-> <<"No changes detected to generate a commit for.">>,
          requests |-> <<>>]
    ELSE LET request == [model |-> client.model,
                         contents |-> PromptPrefix \o d,
                         system_instruction |-> SYSTEM_PROMPT]
         IN  IF call.kind = "ok" /\ call.has_text
             THEN [ret |-> strip(call.text), requests |-> <<request>>]
             ELSE [ret |-> <<"Error generating commit message: ">> \o call.msg,
                   requests |-> <<request>>]

\* the older command has no --print-only and reads no credential file of its
\* own; it supports the providers gemini and openai
OldInit ==
    /\ provider \in Providers \cup {"claude"}
    /\ model \in {"", "gemini-pro"}
    /\ yes \in BOOLEAN
    /\ print_only = FALSE
    /\ os_linesep = <<"\n">>
    /\ envFile = [exists |-> FALSE, content |-> <<>>]
    /\ envFile0 = envFile
    /\ GEMINI_API_KEY = <<>>
    /\ OPENAI_API_KEY = <<>>
    /\ pc = "Start"
    /\ diff = <<>>
    /\ current_key = <<>>
    /\ message = <<>>
    /\ exit_code = {}
    /\ calls = <<>>
    /\ console_out = <<>>
    /\ stdout = <<>>
    /\ provider_call = NoProviderCall
    /\ gateway_error = NoGatewayError
    /\ requests = <<>>
    /\ commit_args = <<>>
    /\ history = <<>>
    /\ client_key = <<>>
    /\ env_reads = 0
    /\ env_writes = 0
    /\ save_args = NoSave
    /\ save_step = 0

\* what no step of the older command touches
oldFrame == <<options, envFile, envFile0, current_key, stdout, gateway_error,
              client_key, fileStats, saveVars>>

\* src/src/config.py at import: load_dotenv(), os.getenv for both keys
OldImportConfig ==
    /\ pc = "Start"
    /\ GEMINI_API_KEY' \in KeyValues \cup {<<>>}
    /\ OPENAI_API_KEY' \in {<<"a">>, <<>>}
    /\ pc' = "CheckRepo"
    /\ UNCHANGED <<oldFrame, diff, message, exit_code, calls, console_out,
                   provider_call, requests, commit_args, history>>

\* src/src/cli.py 31-33
OldCheckRepo ==
    /\ pc = "CheckRepo"
    /\ \E run \in SubprocessOutcomes :
         LET r == is_git_repo(run)
         IN  /\ calls' = Append(calls, Call("is_git_repo",
                    IF r.exc # "" THEN "raise" ELSE IF r.ret THEN "True" ELSE "False"))
             /\ IF r.exc # "" THEN Propagate
                ELSE IF ~r.ret THEN ExitWith(1, "Not a git repository")
                ELSE pc' = "ReadDiff" /\ UNCHANGED <<exit_code, console_out>>
    /\ UNCHANGED <<oldFrame, GEMINI_API_KEY, OPENAI_API_KEY, diff, message,
                   provider_call, requests, commit_args, history>>

\* src/src/cli.py 35-42: an empty diff ends the run with exit code 0
OldReadDiff ==
    /\ pc = "ReadDiff"
    /\ \E run \in SubprocessOutcomes, out \in Diffs :
         /\ (run # "ok" => out = <<>>)
         /\ diff' = get_git_diff(run, out)
         /\ calls' = Append(calls, Call("get_git_diff", run))
    /\ IF diff' = <<>>
       THEN ExitWith(0, "No staged changes found")
       ELSE pc' = "Generate" /\ UNCHANGED <<exit_code, console_out>>
    /\ UNCHANGED <<oldFrame, GEMINI_API_KEY, OPENAI_API_KEY, message,
                   provider_call, requests, commit_args, history>>

\* src/src/cli.py 51-65 and 75-77: build the client and generate; whatever
\* comes back is shown as the generated message
OldGenerate ==
    /\ pc = "Generate"
    /\ \E built \in {"ok", "Exception"}, call \in ProviderCalls \cup {NoProviderCall} :
         LET client == old_LLMClient(provider, model, GEMINI_API_KEY,
                                     OPENAI_API_KEY, built)
             result == old_generate_commit_message(client, diff, call)
         IN  /\ (call # NoProviderCall) <=> (client.exc = "" /\ strip(diff) # <<>>)
             /\ provider_call' = call
             /\ IF client.exc # ""
                THEN /\ calls' = Append(calls, Call("LLMClient", "raise"))
                     /\ ExitWith(1, "Error")
                     /\ UNCHANGED <<message, requests>>
                ELSE /\ calls' = calls \o <<Call("LLMClient", "ok"),
                                            Call("generate_commit_message", "returned")>>
                     /\ message' = result.ret
                     /\ requests' = requests \o result.requests
                     /\ console_out' = Append(console_out, "Generated Commit Message")
                     /\ pc' = IF yes THEN "Commit" ELSE "Confirm"
                     /\ UNCHANGED exit_code
    /\ UNCHANGED <<oldFrame, GEMINI_API_KEY, OPENAI_API_KEY, diff, commit_args,
                   history>>

\* src/src/cli.py 62-65 and 72-77
OldConfirm ==
    /\ pc = "Confirm"
    /\ \E answer \in {"True", "False", "EOFError"} :
         /\ calls' = Append(calls, Call("Confirm.ask", answer))
         /\ IF answer = "True"
            THEN pc' = "Commit" /\ UNCHANGED <<exit_code, console_out>>
            ELSE IF answer = "False"
            THEN /\ pc' = "Return"
                 /\ exit_code' = {0}
                 /\ console_out' = Append(console_out, "Operation aborted")
            ELSE ExitWith(1, "Error")
    /\ UNCHANGED <<oldFrame, GEMINI_API_KEY, OPENAI_API_KEY, diff, message,
                   provider_call, requests, commit_args, history>>

\* src/src/cli.py 67-71 and 75-77: a failed commit is only reported
OldCommit ==
    /\ pc = "Commit"
    /\ \E run \in SubprocessOutcomes :
         LET r == commit_changes(run)
         IN  /\ commit_args' = Append(commit_args, message)
             /\ calls' = Append(calls, Call("commit_changes",
                    IF r.exc # "" THEN "raise" ELSE IF r.ret THEN "True" ELSE "False"))
             /\ IF r.exc # ""
                THEN ExitWith(1, "Error") /\ UNCHANGED history
                ELSE /\ pc' = "Return"
                     /\ exit_code' = {0}
                     /\ console_out' = Append(console_out,
                            IF r.ret THEN "Success" ELSE "Failed to commit")
                     /\ history' = IF r.ret THEN Append(history, message) ELSE history
    /\ UNCHANGED <<oldFrame, GEMINI_API_KEY, OPENAI_API_KEY, diff, message,
                   provider_call, requests>>

OldNext ==
    \/ OldImportConfig
    \/ OldCheckRepo
    \/ OldReadDiff
    \/ OldGenerate
    \/ OldConfirm
    \/ OldCommit

OldSpec == OldInit /\ [][OldNext]_vars

(* ------------------------------ claims --------------------------------- *)
\* the external operation op was performed with result res
Did(op, res) == \E i \in 1..Len(calls) : calls[i] = Call(op, res)

\* the external operation op was performed
Called(op) == \E i \in 1..Len(calls) : calls[i].op = op

\* number of times op was performed
Count(op) == Cardinality({i \in 1..Len(calls) : calls[i].op = op})

\* nothing was done to the credential file, the provider or the history
NoGatewayNoCommit ==
    /\ ~Called("LLMClient")
    /\ ~Called("generate_commit_message")
    /\ requests = <<>>
    /\ ~Called("Confirm.ask")
    /\ ~Called("commit_changes")
    /\ commit_args = <<>>
    /\ history = <<>>

NoKeyPromptNoWrite ==
    /\ ~Called("Prompt.ask")
    /\ ~Called("save_key_to_env")
    /\ envFile = envFile0

\* C1: whenever is_git_repo reports false the run ends with exit code 1 and
\* has not staged, read the diff, prompted for a key, written the credential
\* file, called the gateway or committed.
C1_NotARepoExitsOne ==
    Did("is_git_repo", "False") =>
        /\ pc = "Exit"
        /\ exit_code = {EXIT_NOT_GIT_REPO}
        /\ ~Called("stage_all_changes")
        /\ ~Called("get_git_diff")
        /\ NoKeyPromptNoWrite
        /\ NoGatewayNoCommit

C1_Witness == Did("is_git_repo", "False") /\ pc = "Exit"

\* C2: in a repository, when the diff read after staging is empty the run ends
\* with exit code 3 without a key prompt, a gateway call or a commit, and the
\* commit history is unchanged, with and without --print-only.
C2_EmptyDiffExitsThree ==
    (Called("get_git_diff") /\ diff = <<>>) =>
        /\ Did("is_git_repo", "True")
        /\ pc = "Exit"
        /\ exit_code = {EXIT_NO_CHANGES}
        /\ console_out = <<"NO_CHANGES">>
        /\ NoKeyPromptNoWrite
        /\ NoGatewayNoCommit

C2_Witness ==
    /\ Did("get_git_diff", "ok")
    /\ diff = <<>>
    /\ print_only
    /\ provider # "gemini"
    /\ pc = "Exit"

\* the provider call failed
ProviderFailed == provider_call.kind \in {"ClientError", "APIError", "Exception"}

\* C3: every provider failure whose message contains "429", whatever its
\* exception class and the rest of the message, surfaces as quota-exceeded and
\* exit code 12.
C3_429AlwaysQuota ==
    (ProviderFailed /\ contains(provider_call.msg, <<"4", "2", "9">>)) =>
        /\ gateway_error.exc = "APIQuotaExceededError"
        /\ exit_code = {EXIT_QUOTA_EXCEEDED}

\* C4: without --print-only and with --yes, once generation has succeeded no
\* confirmation is asked, commit_changes is called exactly once with the
\* trimmed generated text, and a successful commit ends the run with exit
\* code 0.
C4_YesCommitsOnce ==
    (Did("generate_commit_message", "returned") /\ ~print_only /\ yes) =>
        /\ ~Called("Confirm.ask")
        /\ message = strip(provider_call.text)
        /\ pc \in {"Commit", "Exit", "Return"}
        /\ (pc = "Commit" => commit_args = <<>> /\ ~Called("commit_changes"))
        /\ (pc # "Commit" =>
                /\ commit_args = <<strip(provider_call.text)>>
                /\ Count("commit_changes") = 1)
        /\ (Did("commit_changes", "True") =>
                /\ pc = "Return"
                /\ exit_code = {EXIT_SUCCESS}
                /\ history = <<strip(provider_call.text)>>)

C4_Witness ==
    /\ yes
    /\ ~print_only
    /\ Did("commit_changes", "True")
    /\ provider_call.text = <<" ", "m">>
    /\ commit_args = <<(<<"m">>)>>
    /\ pc = "Return"

\* C5: without --yes and --print-only, when the user declines the
\* confirmation commit_changes is never called, the history is unchanged and
\* the run ends with exit code 0 on the aborted path.
C5_DeclineAborts ==
    Did("Confirm.ask", "False") =>
        /\ ~yes
        /\ ~print_only
        /\ ~Called("commit_changes")
        /\ commit_args = <<>>
        /\ history = <<>>
        /\ pc = "Return"
        /\ exit_code = {EXIT_SUCCESS}
        /\ console_out[Len(console_out)] = "Operation aborted"

C5_Witness == Did("Confirm.ask", "False") /\ pc = "Return"

\* a non-empty diff was read and config found no key
MissingKeyWithDiff ==
    /\ Called("get_git_diff")
    /\ diff # <<>>
    /\ GEMINI_API_KEY = <<>>

\* C6 as stated: with --print-only, a non-empty diff and no key the run ends
\* with exit code 10 without prompt, credential-file write or gateway call.
C6_Original ==
    (print_only /\ MissingKeyWithDiff) =>
        /\ pc = "Exit"
        /\ exit_code = {EXIT_API_KEY_MISSING}
        /\ NoKeyPromptNoWrite
        /\ NoGatewayNoCommit

\* C6: with --print-only and --provider gemini, a non-empty diff and no key
\* the run ends with exit code 10 without prompt, credential-file write or
\* gateway call.
C6_PrintOnlyMissingKey ==
    (print_only /\ provider = "gemini" /\ MissingKeyWithDiff) =>
        /\ pc = "Exit"
        /\ exit_code = {EXIT_API_KEY_MISSING}
        /\ console_out = <<"API_KEY_MISSING">>
        /\ NoKeyPromptNoWrite
        /\ NoGatewayNoCommit

C6_Witness ==
    /\ print_only
    /\ provider = "gemini"
    /\ MissingKeyWithDiff
    /\ exit_code = {EXIT_API_KEY_MISSING}

\* the outcomes of a run, read off what the run did
RepoCheckFailed == Did("is_git_repo", "False")
StagingFailed == Did("stage_all_changes", "False")
NoChanges ==
    \/ Called("get_git_diff") /\ diff = <<>>
    \/ gateway_error.error_code = "NO_CHANGES"
KeyMissing ==
    \/ /\ Called("get_git_diff") /\ diff # <<>> /\ provider = "gemini"
       /\ GEMINI_API_KEY = <<>>
       /\ (print_only \/ Did("Prompt.ask", "empty"))
    \/ gateway_error.exc = "APIKeyMissingError"
KeyInvalid == gateway_error.exc = "APIKeyInvalidError"
QuotaExceeded == gateway_error.exc = "APIQuotaExceededError"
RequestFailed == gateway_error.exc = "APIRequestError"
CommitFailed == Did("commit_changes", "False")
Done ==
    /\ pc = "Return"
    /\ \/ Did("commit_changes", "True")
       \/ print_only /\ stdout = <<message>>
Aborted == pc = "Return" /\ Did("Confirm.ask", "False")

\* C7: a run in which every external call returns ends with exactly one exit
\* code, the one the table gives its outcome: 1 iff the repository check
\* failed, 2 iff staging failed, 3 iff there were no changes, 10/11/12/13 iff
\* key-missing/key-invalid/quota-exceeded/request-failed, 20 iff the commit
\* failed, 99 only for none of these kinds, 0 only for Done or Aborted.
C7_ExitCodeTable ==
    pc \in {"Exit", "Return"} =>
        /\ Cardinality(exit_code) = 1
        /\ (exit_code = {EXIT_NOT_GIT_REPO} <=> RepoCheckFailed)
        /\ (exit_code = {EXIT_STAGE_FAILED} <=> StagingFailed)
        /\ (exit_code = {EXIT_NO_CHANGES} <=> NoChanges)
        /\ (exit_code = {EXIT_API_KEY_MISSING} <=> KeyMissing)
        /\ (exit_code = {EXIT_API_KEY_INVALID} <=> KeyInvalid)
        /\ (exit_code = {EXIT_QUOTA_EXCEEDED} <=> QuotaExceeded)
        /\ (exit_code = {EXIT_API_ERROR} <=> RequestFailed)
        /\ (exit_code = {EXIT_COMMIT_FAILED} <=> CommitFailed)
        /\ (exit_code = {EXIT_UNKNOWN_ERROR} =>
                ~(RepoCheckFailed \/ StagingFailed \/ NoChanges \/ KeyMissing
                  \/ KeyInvalid \/ QuotaExceeded \/ RequestFailed \/ CommitFailed))
        /\ (exit_code = {EXIT_SUCCESS} => Done \/ Aborted)

\* the exit code the table gives the kind of a typed gateway error
KindExitCode(error_code) ==
    CASE error_code = "API_KEY_MISSING" -> EXIT_API_KEY_MISSING
      [] error_code = "API_KEY_INVALID" -> EXIT_API_KEY_INVALID
      [] error_code = "QUOTA_EXCEEDED" -> EXIT_QUOTA_EXCEEDED
      [] error_code = "API_ERROR" -> EXIT_API_ERROR
      [] error_code = "NO_CHANGES" -> EXIT_NO_CHANGES
      [] OTHER -> EXIT_UNKNOWN_ERROR

\* C8: when the gateway raises a typed error of kind K, generate ends with
\* K's exit code: key-missing 10, key-invalid 11, quota-exceeded 12,
\* request-failed 13, and no-changes (whitespace-only diff) 3.
C8_TypedErrorExitCode ==
    gateway_error.exc # "" =>
        /\ pc = "Exit"
        /\ exit_code = {KindExitCode(gateway_error.error_code)}

\* C9: no run of generate ends with an exception that nothing caught.
C9_NoUncaughtException == pc # "Uncaught"

\* a line without its line end
chomp(line) ==
    IF endswith(line, <<"\n">>) THEN SubSeq(line, 1, Len(line) - 1) ELSE line

\* the lines of a credential file as Python reads them, without line ends
FileLines(file) ==
    IF file.exists
    THEN LET ls == readlines(file.content) IN [i \in 1..Len(ls) |-> chomp(ls[i])]
    ELSE <<>>

\* the lines of a file that are not lines for key k, in order
OtherLines(file, k) ==
    LET NotForKey(l) == ~IsKeyLine(l, k) IN SelectSeq(FileLines(file), NotForKey)

\* the lines of a file that are lines for key k, in order
LinesForKey(file, k) ==
    LET ForKey(l) == IsKeyLine(l, k) IN SelectSeq(FileLines(file), ForKey)

\* C10: for every initial file and key name, after save_key_to_env(key, v1)
\* and save_key_to_env(key, v2) the file has exactly one line for the key,
\* that line is key=v2, and the other lines are the same, in the same order,
\* as before the two calls.
C10_TwoSavesOneLine ==
    save_step = 2 =>
        /\ LinesForKey(envFile, save_args.key) = <<save_args.key \o <<"=">> \o save_args.v2>>
        /\ OtherLines(envFile, save_args.key) = OtherLines(envFile0, save_args.key)

\* C11: with --print-only the confirmation prompt and commit_changes are
\* never reached, with or without --yes; when generation succeeds the message
\* is written exactly once to standard output and the run returns with exit
\* code 0, and nothing is written to standard output otherwise.
C11_PrintOnlyNeverCommits ==
    print_only =>
        /\ ~Called("Confirm.ask")
        /\ ~Called("commit_changes")
        /\ commit_args = <<>>
        /\ history = <<>>
        /\ pc \notin {"Confirm", "Commit"}
        /\ IF Did("generate_commit_message", "returned")
           THEN /\ stdout = <<message>>
                /\ message = strip(provider_call.text)
                /\ pc = "Return"
                /\ exit_code = {EXIT_SUCCESS}
           ELSE stdout = <<>>

C11_Witness ==
    /\ print_only
    /\ yes
    /\ Did("generate_commit_message", "returned")
    /\ stdout = <<message>>
    /\ pc = "Return"

\* position of an external step in the order of the run
Rank(op) ==
    CASE op = "load_dotenv" -> 0
      [] op = "is_git_repo" -> 1
      [] op = "stage_all_changes" -> 2
      [] op = "get_git_diff" -> 3
      [] op = "Prompt.ask" -> 4
      [] op = "save_key_to_env" -> 5
      [] op = "LLMClient" -> 6
      [] op = "generate_commit_message" -> 7
      [] op = "Confirm.ask" -> 8
      [] op = "commit_changes" -> 9

\* the step recorded by call c succeeded
Succeeded(c) ==
    CASE c.op = "load_dotenv" -> TRUE
      [] c.op \in {"is_git_repo", "stage_all_changes", "Confirm.ask"} -> c.res = "True"
      [] c.op = "get_git_diff" -> c.res = "ok" /\ diff # <<>>
      [] c.op = "Prompt.ask" -> c.res = "entered"
      [] c.op \in {"save_key_to_env", "LLMClient"} -> c.res = "ok"
      [] c.op = "generate_commit_message" -> c.res = "returned"
      [] c.op = "commit_changes" -> c.res = "True"

\* C12: the external steps happen only in the order repository check,
\* stage-all, diff read, key resolution, gateway call, confirmation, commit;
\* each at most once; a step is performed only when every earlier one
\* succeeded: the diff is read only after staging succeeded, the gateway is
\* called only with a non-empty diff and a key, and commit_changes only after
\* a successful generation and an approval (confirmation or --yes).
C12_StepsInOrderOnce ==
    /\ \A i, j \in 1..Len(calls) : i < j => Rank(calls[i].op) < Rank(calls[j].op)
    /\ \A i \in 1..Len(calls) : i < Len(calls) => Succeeded(calls[i])
    /\ Called("stage_all_changes") => Did("is_git_repo", "True")
    /\ Called("get_git_diff") => Did("stage_all_changes", "True")
    /\ Called("Prompt.ask") => Did("get_git_diff", "ok") /\ diff # <<>>
    /\ (Called("LLMClient") \/ requests # <<>>) =>
           /\ Did("get_git_diff", "ok")
           /\ diff # <<>>
           /\ current_key # <<>>
    /\ Called("Confirm.ask") => Did("generate_commit_message", "returned") /\ ~yes
    /\ Called("commit_changes") =>
           /\ Did("generate_commit_message", "returned")
           /\ yes \/ Did("Confirm.ask", "True")
           /\ Len(commit_args) = 1
    /\ Len(requests) <= 1
    /\ Len(history) <= 1

C12_Witness ==
    /\ Did("Prompt.ask", "entered")
    /\ Did("save_key_to_env", "ok")
    /\ Did("Confirm.ask", "True")
    /\ Did("commit_changes", "True")
    /\ Len(calls) = 10

\* the credential file holds key=value on every line for the key, and has one
HoldsKey(file, k, value) ==
    LET ls == LinesForKey(file, k)
    IN  /\ ls # <<>>
        /\ \A i \in 1..Len(ls) : ls[i] = k \o <<"=">> \o value

\* the run is past the key lookup of cli.py 102-125
PastKeyLookup == pc \notin {"Start", "CheckRepo", "Stage", "ReadDiff", "Prompt"}

\* the prompt part of C13, shared by the statement as given and as amended
PromptedOnceAndPersisted ==
    /\ Count("Prompt.ask") = 1
    /\ Did("Prompt.ask", "entered") =>
           /\ Called("save_key_to_env")
           /\ Called("LLMClient") =>
                  /\ Did("save_key_to_env", "ok")
                  /\ env_writes = 1
                  /\ HoldsKey(envFile, key_name, current_key)
                  /\ gateway_error.exc # "APIKeyMissingError"
                  /\ Did("LLMClient", "ok") => client_key = current_key
                  /\ \A i, j \in 1..Len(calls) :
                         (calls[i].op = "save_key_to_env" /\ calls[j].op = "LLMClient")
                             => i < j
    /\ Did("Prompt.ask", "empty") =>
           /\ pc = "Exit"
           /\ exit_code = {EXIT_API_KEY_MISSING}
           /\ ~Called("save_key_to_env")
           /\ env_writes = 0
           /\ envFile = envFile0
           /\ NoGatewayNoCommit

\* C13 as stated: without --print-only and with no key from the store the
\* user is prompted exactly once, whatever the provider option.
C13_Original ==
    (~print_only /\ MissingKeyWithDiff /\ PastKeyLookup) => PromptedOnceAndPersisted

\* C13: without --print-only and with --provider gemini, when the key lookup
\* finds no key the user is prompted exactly once; a non-empty entry is saved
\* to the credential file before the gateway is built and is the key the
\* gateway uses; an empty entry ends the run with exit code 10 with no write
\* and no gateway call. With a key from the store there is no prompt and no
\* write.
C13_PromptOncePersistThenCall ==
    /\ (~print_only /\ provider = "gemini" /\ MissingKeyWithDiff /\ PastKeyLookup)
           => PromptedOnceAndPersisted
    /\ Count("Prompt.ask") <= 1
    /\ Called("Prompt.ask") => ~print_only /\ MissingKeyWithDiff
    /\ GEMINI_API_KEY # <<>> =>
           /\ NoKeyPromptNoWrite
           /\ env_writes = 0
           /\ Called("LLMClient") => current_key = GEMINI_API_KEY
           /\ Did("LLMClient", "ok") => client_key = GEMINI_API_KEY

C13_Witness ==
    /\ ~print_only
    /\ GEMINI_API_KEY = <<>>
    /\ Did("save_key_to_env", "ok")
    /\ envFile0.exists
    /\ envFile # envFile0
    /\ requests # <<>>
    /\ client_key = current_key

\* C14: for every non-blank diff the gateway sends exactly one request; its
\* user content is the fixed prefix followed by the diff as the diff read
\* returned it, its system instruction is the fixed one, and its model is the
\* caller's when given, else the pinned default.
C14_RequestIsPrefixPlusDiff ==
    /\ (Did("LLMClient", "ok") /\ strip(diff) # <<>>) => Len(requests) = 1
    /\ \A i \in 1..Len(requests) :
           /\ requests[i].contents = PromptPrefix \o diff
           /\ SubSeq(requests[i].contents, 1, Len(PromptPrefix)) = PromptPrefix
           /\ SubSeq(requests[i].contents, Len(PromptPrefix) + 1,
                     Len(requests[i].contents)) = diff
           /\ requests[i].system_instruction = SYSTEM_PROMPT
           /\ requests[i].model = (IF model # "" THEN model ELSE DEFAULT_GEMINI_MODEL)
           /\ strip(diff) # <<>>

C14_Witness ==
    /\ Len(requests) = 1
    /\ diff # strip(diff)
    /\ Len(diff) = MaxDiffLen
    /\ model = ""
    /\ requests[1].model = DEFAULT_GEMINI_MODEL

\* the provider answered the request with a response that carries text
ProviderAnswered ==
    /\ provider_call # NoProviderCall
    /\ provider_call.kind = "ok"
    /\ provider_call.has_text

\* C15: generate_commit_message ends in one of two ways: after a provider
\* response with text it returns that text stripped of leading and trailing
\* whitespace; after anything else (blank diff, provider error, response
\* without text) it raises one of the typed errors and returns nothing.
C15_TextOrTypedError ==
    Called("generate_commit_message") =>
        IF ProviderAnswered
        THEN /\ Did("generate_commit_message", "returned")
             /\ message = strip(provider_call.text)
             /\ gateway_error = NoGatewayError
        ELSE /\ Did("generate_commit_message", "raise")
             /\ IsTypedError(gateway_error.exc)
             /\ message = <<>>
             /\ stdout = <<>>
             /\ commit_args = <<>>

C15_Witness ==
    /\ Did("generate_commit_message", "raise")
    /\ provider_call # NoProviderCall
    /\ provider_call.kind = "ok"
    /\ ~provider_call.has_text
    /\ gateway_error.exc = "APIRequestError"

\* the provider answered with an HTTP error response (an APIError)
ProviderErrorResponse == provider_call.kind \in {"ClientError", "APIError"}

AuthStatuses == {<<"4", "0", "1">>, <<"4", "0", "3">>}
RateStatus == <<"4", "2", "9">>

\* C16: a provider failure surfaces as key-invalid (exit code 11) exactly
\* when the response is an HTTP 401 or 403; every other failure that is not a
\* 429 surfaces as request-failed (exit code 13).
C16_KeyInvalidIffAuthResponse ==
    /\ ProviderErrorResponse =>
           /\ (StatusOf(provider_call.msg) \in AuthStatuses) <=>
                  (gateway_error.exc = "APIKeyInvalidError"
                       /\ exit_code = {EXIT_API_KEY_INVALID})
           /\ (StatusOf(provider_call.msg) \notin (AuthStatuses \cup {RateStatus})) =>
                  (gateway_error.exc = "APIRequestError"
                       /\ exit_code = {EXIT_API_ERROR})
    /\ (ProviderFailed /\ ~ProviderErrorResponse
            /\ ~contains(provider_call.msg, RateStatus)) =>
           (gateway_error.exc = "APIRequestError" /\ exit_code = {EXIT_API_ERROR})

\* the lines of a file as stored, each with the line end it has in the file
StoredLines(file) == IF file.exists THEN SplitKeepEnds(file.content, <<>>) ELSE <<>>

\* a stored line ends with a line end
HasLineEnd(line) == endswith(line, <<"\n">>)

\* C17: one save_key_to_env(key, value) replaces the line for the key or, if
\* there is none, appends the one line key=value; every other line of the
\* file is left as it was, in place, and an appended line starts on a line of
\* its own.
C17_SaveKeepsOtherLines ==
    save_step = 1 =>
        LET old == StoredLines(envFile0)
            new == StoredLines(envFile)
            k == save_args.key
            entry == k \o <<"=">> \o save_args.v1
        IN  IF \E i \in 1..Len(old) : IsKeyLine(old[i], k)
            THEN /\ Len(new) = Len(old)
                 /\ \A i \in 1..Len(old) :
                        IF IsKeyLine(old[i], k)
                        THEN strip(new[i]) = entry
                        ELSE new[i] = old[i]
            ELSE /\ Len(new) = Len(old) + 1
                 /\ strip(new[Len(new)]) = entry
                 /\ HasLineEnd(new[Len(new)])
                 /\ \A i \in 1..Len(old) :
                        \/ new[i] = old[i]
                        \/ /\ i = Len(old)
                           /\ ~HasLineEnd(old[i])
                           /\ HasLineEnd(new[i])
                           /\ chomp(new[i]) = old[i]
                 /\ \A i \in 1..Len(old) : HasLineEnd(new[i])

\* C18: in every run the credential file is read at most once and written at
\* most once.
C18_FileReadOnceWrittenOnce ==
    /\ env_reads <= 1
    /\ env_writes <= 1

\* generation failed: the provider call raised, or the gateway was given a
\* blank diff
GenerationFailed ==
    \/ ProviderFailed
    \/ Called("generate_commit_message") /\ strip(diff) = <<>>

\* C19: in both variants of the command, when the provider call fails or the
\* diff given to the gateway is blank, commit_changes is never called in that
\* run, so no error description is ever committed.
C19_NoCommitAfterFailedGeneration ==
    GenerationFailed =>
        /\ ~Called("commit_changes")
        /\ commit_args = <<>>
        /\ history = <<>>

\* C20: the credential file changes only in a run in which a non-empty key
\* was entered at the prompt; once saved, the entered key stays in the file
\* whatever happens next (generation fails, the user declines, the commit
\* fails); a run that does not prompt leaves the file as it was.
C20_WriteOnlyOnPromptAndKept ==
    /\ envFile # envFile0 => Did("Prompt.ask", "entered") /\ current_key # <<>>
    /\ Did("save_key_to_env", "ok") =>
           /\ HoldsKey(envFile, key_name, current_key)
           /\ env_writes = 1
    /\ ~Did("Prompt.ask", "entered") =>
           /\ envFile = envFile0
           /\ env_writes = 0

C20_Witness ==
    /\ Did("save_key_to_env", "ok")
    /\ envFile0.exists
    /\ envFile # envFile0
    /\ exit_code = {EXIT_API_KEY_INVALID}
    /\ HoldsKey(envFile, key_name, current_key)

\* the --provider option is not the literal "gemini"
OtherProvider == provider # "gemini"

\* C21: with a --provider other than "gemini" the run never prompts for a
\* key, writes the credential file, calls the gateway or commits; once the
\* repository check, staging and a non-empty diff read have succeeded it ends
\* with exit code 99, and before that a non-repository still ends with exit
\* code 1, a staging failure with 2 and an empty diff with 3.
C21_OtherProviderExits99 ==
    OtherProvider =>
        /\ NoKeyPromptNoWrite
        /\ env_writes = 0
        /\ NoGatewayNoCommit
        /\ current_key = <<>>
        /\ (Called("get_git_diff") /\ diff # <<>>) =>
               /\ Did("is_git_repo", "True")
               /\ Did("stage_all_changes", "True")
               /\ Did("get_git_diff", "ok")
               /\ pc = "Exit"
               /\ exit_code = {EXIT_UNKNOWN_ERROR}
               /\ console_out = <<"UNSUPPORTED_PROVIDER">>
        /\ exit_code = {EXIT_UNKNOWN_ERROR} =>
               /\ Did("stage_all_changes", "True")
               /\ Called("get_git_diff") /\ diff # <<>>
        /\ Did("is_git_repo", "False") => exit_code = {EXIT_NOT_GIT_REPO}
        /\ Did("stage_all_changes", "False") => exit_code = {EXIT_STAGE_FAILED}
        /\ (Called("get_git_diff") /\ diff = <<>>) => exit_code = {EXIT_NO_CHANGES}

C21_Witness ==
    /\ provider = "Gemini"
    /\ GEMINI_API_KEY = <<>>
    /\ ~print_only
    /\ Called("get_git_diff")
    /\ diff # <<>>
    /\ exit_code = {EXIT_UNKNOWN_ERROR}

====
